---------------------------- MODULE Spec2Model ----------------------------
(***************************************************************************)
(* A model of the speakleash client library (src/speakleash/__init__.py):  *)
(* the file cache helpers (FileManager), the remote fetcher (WebRequester),*)
(* the time-bucketed structure cache (StructureDownloader), the category   *)
(* resolver (CategoryManager), the catalog (Speakleash) and the dataset    *)
(* handle (SpeakleashDataset).                                             *)
(*                                                                         *)
(* Four specifications share the variables; each one moves only its own    *)
(* group and leaves the others at their initial value:                     *)
(*   SpecCache     StructureDownloader.get_structure over a replicate dir  *)
(*   SpecDownload  WebRequester.download_file / SpeakleashDataset.check_file*)
(*   SpecCategory  CategoryManager.check_category                          *)
(*   SpecCatalog   Speakleash.__init__ / Speakleash.get                    *)
(***************************************************************************)
EXTENDS Integers, Sequences, FiniteSets, TLC

VARIABLES
    \* the replicate directory and the clock
    dirExists,   \* os.path.exists(replicate_dir)
    files,       \* cache files of the replicate directory: name -> text
    now,         \* datetime.now(), as [day, hour]
    \* history of StructureDownloader.get_structure
    last,        \* the most recent get_structure call
    survivors,   \* cache files whose os.remove raised (and was swallowed)
    \* the dataset handle and its data file
    manifest,    \* SpeakleashDataset.manifest
    dataFile,    \* {replicate_dir}/{name}.jsonl.zst: [exists, size]
    remote,      \* what the data file endpoint answers
    lastDl,      \* the most recent WebRequester.download_file call
    lastCheck,   \* the most recent check_file / data call
    \* the category resolver
    catIn,       \* the arguments of a check_category call and the label lists
    catOut,      \* its outcome
    \* the catalog
    datasets,    \* Speakleash.datasets: the handles' names, in order
    catalog      \* the most recent construction / get call

vars == <<dirExists, files, now, last, survivors, manifest, dataFile, remote,
          lastDl, lastCheck, catIn, catOut, datasets, catalog>>

cacheVars    == <<files, now, last, survivors>>
downloadVars == <<manifest, dataFile, remote, lastDl, lastCheck>>
categoryVars == <<catIn, catOut>>
catalogVars  == <<datasets, catalog>>

-----------------------------------------------------------------------------
(* Bounds of the model *)

MaxTick == 1       \* the clock advances MaxTick times, an hour each
HoursPerDay == 1   \* a day of the model has HoursPerDay hours
MaxSurvivors == 1  \* how many cache files may withstand os.remove at a time
MaxBlocks == 1     \* a body holds up to MaxBlocks full blocks
MaxRest == 1       \* and up to MaxRest further bytes
MaxCategories == 2 \* a check_category call names up to MaxCategories categories
MaxListing == 2    \* a registry listing holds up to MaxListing entries

-----------------------------------------------------------------------------
(* Python values and JSON text *)

\* A Python value as json.loads yields it: None, a list or a dict (object),
\* with its items.  Only emptiness and identity of the items matter here.
None      == [ty |-> "none", items |-> <<>>]
EmptyList == [ty |-> "list", items |-> <<>>]
EmptyDict == [ty |-> "dict", items |-> <<>>]
ListOf(xs) == [ty |-> "list", items |-> xs]
DictOf(xs) == [ty |-> "dict", items |-> xs]

\* Python truthiness (`if data:`): None, [] and {} are falsy.
Truthy(v) == v.ty # "none" /\ v.items # <<>>

\* The text of a file or of a response body: a JSON document, or text that
\* json.load rejects (an HTML error page, a truncated file).
JsonText(v) == [valid |-> TRUE, doc |-> v]
Garbage     == [valid |-> FALSE, doc |-> None]

\* json.loads / json.load: the value of a JSON document (null is None), or a
\* raised JSONDecodeError.
JsonLoads(t) == IF t.valid THEN [raised |-> FALSE, val |-> t.doc]
                ELSE [raised |-> TRUE, val |-> None]

\* json.dump: the text written for a value (None is written as null).
JsonDump(v) == JsonText(v)

-----------------------------------------------------------------------------
(* FileManager *)

\* FileManager.load_json: the parsed content, None when the file is missing
\* or does not parse (bare except).
load_json(fs, file) ==
    IF file \notin DOMAIN fs THEN None
    ELSE IF JsonLoads(fs[file]).raised THEN None
    ELSE JsonLoads(fs[file]).val

SaveOutcomes == {"ok", "open_fails"}

\* FileManager.save_json: the directory after the call.  The file holds the
\* dumped value, unless open(file, 'w') raises (an unwritable directory),
\* which is swallowed and leaves the directory as it was.
save_json(fs, data, file, outcome) ==
    IF outcome = "ok"
    THEN [f \in DOMAIN fs \cup {file} |->
             IF f = file THEN JsonDump(data) ELSE fs[f]]
    ELSE fs

-----------------------------------------------------------------------------
(* WebRequester.get_json *)

\* What requests.get(url) does: raises (connection failure), or answers with
\* a status (ok is r.ok: status < 400) and a body.
ConnError == [kind |-> "error", ok |-> FALSE, text |-> Garbage]
HttpResponse(ok, text) == [kind |-> "http", ok |-> ok, text |-> text]

\* WebRequester.get_json: the parsed body of an ok response; None when the
\* request raises, when the body does not parse (both caught), and when the
\* status is not ok (the function falls off its end).
get_json(resp) ==
    IF resp.kind = "error" THEN None
    ELSE IF resp.ok
         THEN IF JsonLoads(resp.text).raised THEN None
              ELSE JsonLoads(resp.text).val
         ELSE None

-----------------------------------------------------------------------------
(* StructureDownloader *)

CacheUrls == {"u1", "u2"}

\* hashlib.md5(url).hexdigest(): the digests of the model's URLs (distinct
\* URLs of the model have distinct digests).
MD5(url) ==
    CASE url = "u1" -> "d41d"
      [] url = "u2" -> "9e10"
      [] url = "speakleash.json" -> "77aa"
      [] url = "a.manifest" -> "0cc1"
      [] url = "b.manifest" -> "92eb"

\* datetime.now().strftime("-%m_%d_%y_%H" if hourly else "-%m_%d_%y"): the
\* daily suffix drops the hour.
Strftime(t, hourly) == IF hourly THEN <<t.day, t.hour>> ELSE <<t.day>>

\* os.path.join(replicate_dir, hash + ts + ".json")
CacheFile(url, t, hourly) == [hash |-> MD5(url), ts |-> Strftime(t, hourly)]

\* glob.glob(replicate_dir/<hash>-*.json): every cache file of the URL,
\* hourly and daily alike.
Glob(fs, url) == {f \in DOMAIN fs : f.hash = MD5(url)}

\* A plausible slip: the stale files are never removed.
RemoveNothing(fs, url, failing) == fs

\* StructureDownloader._remove_old_files: os.remove on every match; a
\* removal that raises (the files of `failing`) is swallowed and leaves the
\* file in place.
remove_old_files(fs, url, failing) ==
    [f \in DOMAIN fs \ (Glob(fs, url) \ failing) |-> fs[f]]

\* StructureDownloader.get_structure as a function of the directory, the
\* clock and what the environment does during the call: the directory after
\* the call, the value returned, whether the network was called, the files
\* whose removal failed and whether a file of another bucket was removed.
get_structure(fs, t, url, hourly, resp, outcome, failing) ==
    LET file == CacheFile(url, t, hourly)
        data == load_json(fs, file)
    IN  IF Truthy(data)
        THEN [fs |-> fs, ret |-> data, fetched |-> FALSE, file |-> file,
              failed |-> {}, purged |-> FALSE]
        ELSE LET fs1   == remove_old_files(fs, url, failing)
                 fresh == get_json(resp)
             IN  [fs |-> save_json(fs1, fresh, file, outcome), ret |-> fresh,
                  fetched |-> TRUE, file |-> file,
                  failed |-> failing \cap Glob(fs, url),
                  purged |-> (DOMAIN fs \ DOMAIN fs1) \ {file} # {}]

-----------------------------------------------------------------------------
(* SpecCache: get_structure calls on two URLs while time advances *)

CacheValues == {EmptyList, ListOf(<<"x">>)}

CacheResponses ==
    {ConnError}
      \cup {HttpResponse(TRUE, JsonText(v)) : v \in CacheValues}
      \cup {HttpResponse(TRUE, Garbage), HttpResponse(FALSE, Garbage)}

\* get_structure sees a response through get_json only: one response for
\* each value get_json can yield stands for all that yield it.
CacheAnswers ==
    {CHOOSE resp \in CacheResponses : get_json(resp) = v :
        v \in {get_json(resp) : resp \in CacheResponses}}

NoCall == [file |-> [hash |-> "", ts |-> <<>>], url |-> "",
           fetched |-> FALSE, ret |-> None, purged |-> FALSE]

InitRest ==
    /\ manifest = None
    /\ dataFile = 0
    /\ remote = 0
    /\ lastDl = 0
    /\ lastCheck = 0
    /\ catIn = 0
    /\ catOut = 0
    /\ datasets = <<>>
    /\ catalog = 0

InitCache ==
    /\ dirExists = FALSE
    /\ files = <<>>
    /\ now = [day |-> 0, hour |-> 0]
    /\ last = NoCall
    /\ survivors = {}
    /\ InitRest

\* What the environment may do during a call: the answer of the network,
\* the outcome of the save and the files whose removal raises.  A call that
\* finds a truthy value in its cache file returns before any of them.
CallEnvs(fs, t, url, hourly) ==
    IF Truthy(load_json(fs, CacheFile(url, t, hourly)))
    THEN {[resp |-> ConnError, outcome |-> "ok", failing |-> {}]}
    ELSE [resp : CacheAnswers, outcome : SaveOutcomes,
          failing : {fail \in SUBSET Glob(fs, url) :
                        Cardinality(fail) <= MaxSurvivors}]

\* A call of get_structure(url, hourly).
GetStructure ==
    \E url \in CacheUrls, hourly \in BOOLEAN :
      \E env \in CallEnvs(files, now, url, hourly) :
      \E r \in {get_structure(files, now, url, hourly, env.resp, env.outcome,
                              env.failing)} :
      \E kept \in {(survivors \cap DOMAIN r.fs) \cup r.failed} :
            /\ Cardinality(kept) <= MaxSurvivors
            /\ dirExists' = TRUE
            /\ files' = r.fs
            /\ last' = [file |-> r.file, url |-> url, fetched |-> r.fetched,
                        ret |-> r.ret, purged |-> r.purged]
            /\ survivors' = kept
            /\ UNCHANGED <<now, downloadVars, categoryVars, catalogVars>>

\* The clock advances by an hour, into the next day after the last hour.
Tick ==
    /\ now.day * HoursPerDay + now.hour < MaxTick
    /\ now' = IF now.hour + 1 < HoursPerDay
              THEN [now EXCEPT !.hour = now.hour + 1]
              ELSE [day |-> now.day + 1, hour |-> 0]
    /\ UNCHANGED <<dirExists, files, last, survivors, downloadVars,
                   categoryVars, catalogVars>>

NextCache == GetStructure \/ Tick

SpecCache == InitCache /\ [][NextCache]_vars

-----------------------------------------------------------------------------
(* Claims about the structure cache *)

\* A step of SpecCache that is a get_structure call (the clock stands still).
IsCall == now' = now

\* C1: a get_structure call that directly follows a call for the same URL
\* with the same hourly flag in the same time bucket (the same cache file)
\* makes no network call and returns the value the first call returned,
\* whatever was fetched (None and empty values included).
C1_SecondCallIsHit ==
    [][(IsCall /\ last.url # "" /\ last'.file = last.file)
          => (~last'.fetched /\ last'.ret = last.ret)]_vars

\* C2 as claimed: at most one cache file per URL exists between calls, a
\* fetch leaves no file of another bucket for its URL, and a call leaves
\* the files of the other URLs as they were.
C2_StaleFilesGone ==
    /\ \A u \in CacheUrls : Cardinality(Glob(files, u)) <= 1
    /\ last.fetched => Glob(files, last.url) \subseteq {last.file}

C2_OthersUntouched ==
    IsCall => \A u \in CacheUrls \ {last'.url} :
                 /\ Glob(files', u) = Glob(files, u)
                 /\ \A f \in Glob(files, u) : files'[f] = files[f]

C2_StaleFilesGoneUnlessStuck ==
    /\ \A u \in CacheUrls : Cardinality(Glob(files, u) \ survivors) <= 1
    /\ last.fetched => (Glob(files, last.url) \ survivors) \subseteq {last.file}

-----------------------------------------------------------------------------
(* WebRequester.download_file *)

block_size == 1024

\* The sizes the model draws bodies, declared lengths and manifest sizes
\* from: up to MaxBlocks full blocks plus up to MaxRest further bytes.
Sizes == {k * block_size + r : k \in 0..MaxBlocks, r \in 0..MaxRest}

\* A file of the replicate directory, by its byte size.
NoFile == [exists |-> FALSE, size |-> 0]
FileOf(n) == [exists |-> TRUE, size |-> n]

\* The content-length header of a response: absent, a number, or text that
\* int() rejects.
NoLength      == [present |-> FALSE, numeric |-> FALSE, n |-> 0]
BadLength     == [present |-> TRUE, numeric |-> FALSE, n |-> 0]
LengthOf(n)   == [present |-> TRUE, numeric |-> TRUE, n |-> n]

\* What can go wrong in the environment during one download: nothing,
\* requests.get raises, open(filepath, 'wb') raises, or the stream breaks
\* (iter_content raises) when the last chunk is due.
Faults == {"none", "connect", "open", "stream"}

\* response.iter_content(block_size): the body in chunks of block_size
\* bytes, the last one shorter; the sequence of the chunks' lengths.
iter_content(body) ==
    LET count == (body + block_size - 1) \div block_size
    IN  [i \in 1..count |->
            IF i * block_size <= body THEN block_size
            ELSE body - (i - 1) * block_size]

\* The loop of download_file over the first `upto` chunks: progress_bar.n
\* and the bytes written to the file, each advanced by len(data).
RECURSIVE WriteChunks(_, _)
WriteChunks(chunks, upto) ==
    IF upto = 0 THEN [n |-> 0, written |-> 0]
    ELSE LET before == WriteChunks(chunks, upto - 1)
         IN  [n |-> before.n + chunks[upto],
              written |-> before.written + chunks[upto]]

\* The superseded revision's test (src/speakleash/SpeakleashDataset.py):
\* a transfer with no declared length always counts as complete.
CompleteUnlessUndeclared(total_size_in_bytes, n) ==
    ~(total_size_in_bytes # 0 /\ n # total_size_in_bytes)

\* return total_size_in_bytes == progress_bar.n
Complete(total_size_in_bytes, n) == total_size_in_bytes = n

\* WebRequester.download_file: its outcome ("True", "False", or "raise" when
\* an exception leaves the function: nothing in it is caught) and the file
\* at filepath after the call.  The status of the response is never read.
download_file(resp, file, fault) ==
    IF fault = "connect" THEN [result |-> "raise", file |-> file]
    ELSE IF resp.length.present /\ ~resp.length.numeric
    THEN [result |-> "raise", file |-> file]            \* int() raises
    ELSE IF fault = "open" THEN [result |-> "raise", file |-> file]
    ELSE LET total_size_in_bytes ==
                 IF resp.length.present THEN resp.length.n ELSE 0
             chunks == iter_content(resp.body)
         IN  IF fault = "stream"
             THEN LET got == IF Len(chunks) = 0 THEN 0 ELSE Len(chunks) - 1
                  IN  [result |-> "raise",
                       file |-> FileOf(WriteChunks(chunks, got).written)]
             ELSE LET done == WriteChunks(chunks, Len(chunks))
                  IN  [result |-> IF Complete(total_size_in_bytes, done.n)
                                  THEN "True" ELSE "False",
                       file |-> FileOf(done.written)]

-----------------------------------------------------------------------------
(* SpeakleashDataset *)

\* dict.get(key, default) on a dict given as its set of <<key, value>> items.
DictGet(d, key, default) ==
    IF \E item \in d : item[1] = key
    THEN (CHOOSE item \in d : item[1] = key)[2]
    ELSE default

\* SpeakleashDataset.jsonl_zst_file_size
jsonl_zst_file_size(m) == DictGet(m, "file_size", 0)

\* os.path.join(replicate_dir, name + ".jsonl.zst")
file_path_json_zst == "replicate_dir/d.jsonl.zst"

\* A plausible slip: the size of the local file is not compared.
FileExistsOnly(file, m) == file.exists

\* file_json_zst_exists: the local file exists and has the manifest's size.
FileValid(file, m) == file.exists /\ file.size = jsonl_zst_file_size(m)

\* SpeakleashDataset.check_file: the file after the call, the number of
\* download attempts, the outcome of the attempt ("none" without one) and
\* what the call returns (or that it raised).
check_file(file, m, resp, fault) ==
    IF FileValid(file, m)
    THEN [file |-> file, attempts |-> 0, dl |-> "none", raised |-> FALSE,
          ok |-> TRUE, path |-> file_path_json_zst]
    ELSE LET d == download_file(resp, file, fault)
         IN  IF d.result = "raise"
             THEN [file |-> d.file, attempts |-> 1, dl |-> d.result,
                   raised |-> TRUE, ok |-> FALSE, path |-> ""]
             ELSE IF d.result = "False"
             THEN [file |-> d.file, attempts |-> 1, dl |-> d.result,
                   raised |-> FALSE, ok |-> FALSE, path |-> ""]
             ELSE [file |-> d.file, attempts |-> 1, dl |-> d.result,
                   raised |-> FALSE, ok |-> TRUE,
                   path |-> file_path_json_zst]

\* SpeakleashDataset._get_data (the data and ext_data accessors): None when
\* check_file reports failure, else the external reader's record stream;
\* an exception of check_file passes through.
get_data(c) ==
    IF c.raised THEN "raise" ELSE IF ~c.ok THEN "None" ELSE "stream"

-----------------------------------------------------------------------------
(* SpecDownload: one dataset handle, its manifest, its remote data file and
   its local data file *)

Manifests == {{}} \cup {{<<"file_size", n>>} : n \in Sizes}

DataResponses ==
    [status : {200, 404},
     length : {NoLength, BadLength} \cup {LengthOf(n) : n \in Sizes},
     body   : Sizes]

LocalFiles == {NoFile} \cup {FileOf(n) : n \in Sizes}

NoDownload == [called |-> FALSE, result |-> "none", before |-> NoFile,
               after |-> NoFile]

NoCheck == [called |-> FALSE, op |-> "none", before |-> NoFile,
            after |-> NoFile, attempts |-> 0, dl |-> "none",
            raised |-> FALSE, ok |-> FALSE, path |-> "", data |-> "none"]

InitDownload ==
    /\ dirExists = TRUE
    /\ files = <<>>
    /\ now = [day |-> 0, hour |-> 0]
    /\ last = NoCall
    /\ survivors = {}
    /\ manifest \in Manifests
    /\ remote \in DataResponses
    /\ dataFile \in LocalFiles
    /\ lastDl = NoDownload
    /\ lastCheck = NoCheck
    /\ catIn = 0
    /\ catOut = 0
    /\ datasets = <<>>
    /\ catalog = 0

Downloaded(d, before) ==
    [called |-> TRUE, result |-> d.result, before |-> before,
     after |-> d.file]

Checked(c, op, before) ==
    [called |-> TRUE, op |-> op, before |-> before, after |-> c.file,
     attempts |-> c.attempts, dl |-> c.dl, raised |-> c.raised, ok |-> c.ok,
     path |-> c.path,
     data |-> IF op = "data" THEN get_data(c) ELSE "none"]

\* A direct call of WebRequester.download_file on the data file's path.
DownloadFile ==
    \E fault \in Faults :
      \E d \in {download_file(remote, dataFile, fault)} :
        /\ dataFile' = d.file
        /\ lastDl' = Downloaded(d, dataFile)
        /\ UNCHANGED <<dirExists, cacheVars, manifest, remote, lastCheck,
                       categoryVars, catalogVars>>

\* A call of check_file (op "check_file") or a read of the data / ext_data
\* accessor (op "data"), which calls check_file.
CheckFile ==
    \E fault \in Faults, op \in {"check_file", "data"} :
      \E c \in {check_file(dataFile, manifest, remote, fault)} :
        /\ dataFile' = c.file
        /\ lastDl' = IF c.attempts = 0 THEN lastDl
                     ELSE [called |-> TRUE, result |-> c.dl,
                           before |-> dataFile, after |-> c.file]
        /\ lastCheck' = Checked(c, op, dataFile)
        /\ UNCHANGED <<dirExists, cacheVars, manifest, remote,
                       categoryVars, catalogVars>>

NextDownload == DownloadFile \/ CheckFile

SpecDownload == InitDownload /\ [][NextDownload]_vars

-----------------------------------------------------------------------------
(* Claims about the remote fetcher and the dataset handle *)

Is2xx(status) == 200 <= status /\ status < 300

Declared(length) == IF length.present THEN length.n ELSE 0

C4_Non2xxFails ==
    (lastDl.called /\ ~Is2xx(remote.status))
       => (lastDl.result = "False" /\ lastDl.after = lastDl.before)

\* C5: no call of download_file, check_file or the data accessors ends in
\* an exception; a failed download shows as false, (False, "") and None.
C5_NothingRaises ==
    /\ lastDl.called => lastDl.result # "raise"
    /\ lastCheck.called =>
          /\ ~lastCheck.raised
          /\ lastCheck.data # "raise"
          /\ (lastCheck.attempts = 1 /\ lastCheck.dl # "True")
                => (~lastCheck.ok /\ lastCheck.path = "")

C10_ReturnedFileIsValid ==
    (lastCheck.called /\ ~lastCheck.raised /\ lastCheck.ok)
       => /\ lastCheck.after.exists
          /\ lastCheck.after.size = jsonl_zst_file_size(manifest)

-----------------------------------------------------------------------------
(* CategoryManager *)

\* str.upper() on the strings of the model.
Upper(str) ==
    CASE str = "wiadomosci" -> "WIADOMOSCI"
      [] str = "Wiadomosci" -> "WIADOMOSCI"
      [] str = "sport" -> "SPORT"
      [] str = "news" -> "NEWS"
      [] OTHER -> str

\* list.index(name): the 0-based position of the first equal element, or a
\* raised ValueError.
ListIndex(list, name) ==
    IF \E i \in 1..Len(list) : list[i] = name
    THEN [raised |-> "",
          index |-> (CHOOSE i \in 1..Len(list) :
                        /\ list[i] = name
                        /\ \A j \in 1..(i - 1) : list[j] # name) - 1]
    ELSE [raised |-> "ValueError", index |-> 0]

\* CategoryManager.__get_pl_category: for lang "en" the Polish label at the
\* index of the name in the English list (index() raises ValueError for an
\* unknown name, the subscript raises IndexError past the end of the Polish
\* list); None for any other lang.
get_pl_category(name, lang, categories_pl, categories_en) ==
    IF lang = "en"
    THEN LET found == ListIndex(categories_en, name)
         IN  IF found.raised # ""
             THEN [raised |-> found.raised, none |-> TRUE, label |-> ""]
             ELSE IF found.index >= Len(categories_pl)
             THEN [raised |-> "IndexError", none |-> TRUE, label |-> ""]
             ELSE [raised |-> "", none |-> FALSE,
                   label |-> categories_pl[found.index + 1]]
    ELSE [raised |-> "", none |-> TRUE, label |-> ""]

\* `not meta`: meta is None or an empty dict.
MetaFalsy(meta) == meta.none \/ meta.keys = {}

\* meta.get("category", {}), as the set of its <<name, score>> items.
MetaCategories(meta) ==
    IF "category" \in meta.keys THEN meta.category ELSE {}

\* The loop of check_category from the i-th requested category on: "True" on
\* the first match, "False" at the end of the list, or the exception that
\* leaves the loop.
RECURSIVE CheckFrom(_, _)
CheckFrom(in, i) ==
    IF i > Len(in.categories) THEN "False"
    ELSE LET category == in.categories[i]
             category_pl ==
                 IF in.lang # "pl"
                 THEN get_pl_category(category, in.lang, in.categories_pl,
                                      in.categories_en)
                 ELSE [raised |-> "", none |-> FALSE, label |-> category]
         IN  IF category_pl.raised # "" THEN category_pl.raised
             ELSE IF /\ ~category_pl.none
                     /\ category_pl.label # ""
                     /\ \E item \in MetaCategories(in.meta) :
                           /\ Upper(item[1]) = Upper(category_pl.label)
                           /\ item[2] >= in.cf
             THEN "True"
             ELSE CheckFrom(in, i + 1)

\* CategoryManager.check_category(meta, categories, cf, lang)
check_category(in) ==
    IF MetaFalsy(in.meta) \/ in.categories = <<>> THEN "False"
    ELSE CheckFrom(in, 1)

-----------------------------------------------------------------------------
(* SpecCategory: one check_category call on arguments drawn from small sets *)

\* The label lists the resolver loaded: index-aligned, or drifted apart (the
\* Polish list one entry short).
LabelLists ==
    {[pl |-> <<"WIADOMOSCI", "SPORT">>, en |-> <<"NEWS", "SPORT">>],
     [pl |-> <<"WIADOMOSCI">>, en |-> <<"NEWS", "SPORT">>]}

CategoryNames == {"wiadomosci", "NEWS", "SPORT", "bogus"}

\* Scores and thresholds in hundredths (0.97 is 97).
MetaValues ==
    {[none |-> TRUE, keys |-> {}, category |-> {}],
     [none |-> FALSE, keys |-> {}, category |-> {}],
     [none |-> FALSE, keys |-> {"id"}, category |-> {}],
     [none |-> FALSE, keys |-> {"category"}, category |-> {}],
     [none |-> FALSE, keys |-> {"category"},
      category |-> {<<"Wiadomosci", 97>>}],
     [none |-> FALSE, keys |-> {"category"},
      category |-> {<<"Wiadomosci", 50>>, <<"SPORT", 97>>}]}

Thresholds == {95, 99}

RECURSIVE SeqsUpTo(_, _)
SeqsUpTo(S, n) ==
    IF n = 0 THEN {<<>>}
    ELSE LET shorter == SeqsUpTo(S, n - 1)
         IN  shorter \cup {Append(q, x) : q \in shorter, x \in S}

CategoryInputs ==
    {[categories_pl |-> l.pl, categories_en |-> l.en, meta |-> m,
      categories |-> c, cf |-> t, lang |-> g] :
        l \in LabelLists, m \in MetaValues,
        c \in SeqsUpTo(CategoryNames, MaxCategories), t \in Thresholds,
        g \in {"pl", "en", "hr"}}

InitCategory ==
    /\ dirExists = TRUE
    /\ files = <<>>
    /\ now = [day |-> 0, hour |-> 0]
    /\ last = NoCall
    /\ survivors = {}
    /\ manifest = None
    /\ dataFile = 0
    /\ remote = 0
    /\ lastDl = 0
    /\ lastCheck = 0
    /\ catIn \in CategoryInputs
    /\ catOut = "pending"
    /\ datasets = <<>>
    /\ catalog = 0

\* The call of check_category on the arguments.
CheckCategory ==
    /\ catOut = "pending"
    /\ catOut' = check_category(catIn)
    /\ UNCHANGED <<dirExists, cacheVars, downloadVars, catIn, catalogVars>>

NextCategory == CheckCategory

SpecCategory == InitCategory /\ [][NextCategory]_vars

-----------------------------------------------------------------------------
(* Claims about the category resolver *)

\* Whether a requested name has a Polish label: it is one already (lang
\* "pl"), or it is in the English list at an index the Polish list has.
Translatable(in, name) ==
    \/ in.lang = "pl"
    \/ /\ in.lang = "en"
       /\ \E i \in 1..Len(in.categories_en) :
             in.categories_en[i] = name /\ i <= Len(in.categories_pl)

\* The Polish label of a translatable name.
LabelOf(in, name) ==
    IF in.lang = "pl" THEN name
    ELSE in.categories_pl[
           CHOOSE i \in 1..Len(in.categories_en) :
              /\ in.categories_en[i] = name
              /\ \A j \in 1..(i - 1) : in.categories_en[j] # name]

\* C6: for lang "pl" and "en", check_category returns true exactly when meta
\* and categories are non-empty and some requested name, translated for
\* "en", equals ignoring case a key of meta["category"] with score >= cf.
C6_TrueIffMatch ==
    (catOut # "pending" /\ catIn.lang \in {"pl", "en"})
       => (catOut = "True"
             <=> /\ ~MetaFalsy(catIn.meta)
                 /\ catIn.categories # <<>>
                 /\ \E i \in 1..Len(catIn.categories) :
                       /\ Translatable(catIn, catIn.categories[i])
                       /\ \E item \in MetaCategories(catIn.meta) :
                             /\ Upper(item[1]) =
                                  Upper(LabelOf(catIn, catIn.categories[i]))
                             /\ item[2] >= catIn.cf)

\* The request with the names that cannot be translated taken out.
RECURSIVE OnlyTranslatable(_, _)
OnlyTranslatable(in, cats) ==
    IF cats = <<>> THEN <<>>
    ELSE IF Translatable(in, Head(cats))
         THEN <<Head(cats)>> \o OnlyTranslatable(in, Tail(cats))
         ELSE OnlyTranslatable(in, Tail(cats))

\* C7: with lang other than "pl" a name that cannot be translated is
\* skipped: the call raises nothing and returns what it returns for the
\* request without such names.
C7_UntranslatableSkipped ==
    (catOut # "pending" /\ catIn.lang # "pl")
       => /\ catOut \in {"True", "False"}
          /\ catOut = check_category(
                [catIn EXCEPT !.categories =
                    OnlyTranslatable(catIn, catIn.categories)])

-----------------------------------------------------------------------------
(* Speakleash: the catalog *)

\* url + structure_file, for the default language.
RegistryUrl == "speakleash.json"

\* self.url + self.name + ".manifest"
ManifestUrl(name) == IF name = "a" THEN "a.manifest" ELSE "b.manifest"

\* A plausible slip: every entry of the listing gets a handle.
HasAnything(item) == TRUE

\* `"name" in item`, for an entry given as its set of <<key, value>> items.
HasName(item) == \E kv \in item : kv[1] = "name"

\* SpeakleashDataset.__init__ / _download_manifest: the handle of a dataset
\* and the directory after its manifest went through the structure cache
\* (an empty manifest when that yields nothing).
NewDataset(fs, t, name, resp, outcome) ==
    LET r == get_structure(fs, t, ManifestUrl(name), TRUE, resp, outcome, {})
    IN  [fs |-> r.fs,
         handle |-> [name |-> name,
                     manifest |-> IF Truthy(r.ret) THEN r.ret
                                  ELSE EmptyDict]]

\* The loop of Speakleash.__init__ over the first `upto` entries of the
\* listing: one handle appended per entry that has a "name"; manifests[i]
\* is what the manifest endpoint answers while the i-th entry is handled.
RECURSIVE BuildDatasets(_, _, _, _, _, _)
BuildDatasets(fs, t, items, upto, manifests, outcome) ==
    IF upto = 0 THEN [fs |-> fs, datasets |-> <<>>]
    ELSE LET before == BuildDatasets(fs, t, items, upto - 1, manifests,
                                     outcome)
             item == items[upto]
         IN  IF HasName(item)
             THEN LET name == DictGet(item, "name", "")
                      d == NewDataset(before.fs, t, name, manifests[upto],
                                      outcome)
                  IN  [fs |-> d.fs,
                       datasets |-> Append(before.datasets, d.handle)]
             ELSE before

\* Speakleash.__init__: the listing goes through the structure cache; when
\* it is truthy its entries are turned into handles.
speakleash_init(fs, t, registry, manifests, outcome) ==
    LET r == get_structure(fs, t, RegistryUrl, TRUE, registry, outcome, {})
        names == r.ret
    IN  IF Truthy(names)
        THEN LET b == BuildDatasets(r.fs, t, names.items, Len(names.items),
                                    manifests, outcome)
             IN  [fs |-> b.fs, names |-> names, datasets |-> b.datasets]
        ELSE [fs |-> r.fs, names |-> names, datasets |-> <<>>]

NoHandle == [name |-> "", manifest |-> None]

\* Speakleash.get: next((d for d in self.datasets if d.name == name), None)
speakleash_get(ds, name) ==
    IF \E i \in 1..Len(ds) : ds[i].name = name
    THEN ds[CHOOSE i \in 1..Len(ds) :
               /\ ds[i].name = name
               /\ \A j \in 1..(i - 1) : ds[j].name # name]
    ELSE NoHandle

-----------------------------------------------------------------------------
(* SpecCatalog: constructions of the catalog against a registry, and lookups *)

DatasetNames == {"a", "b"}

ListingEntries ==
    {{<<"name", n>>} : n \in DatasetNames} \cup {{<<"no_name", "b">>}}

Listings == SeqsUpTo(ListingEntries, MaxListing)

RegistryResponses ==
    {ConnError, HttpResponse(FALSE, Garbage), HttpResponse(TRUE, Garbage)}
      \cup {HttpResponse(TRUE, JsonText(ListOf(l))) : l \in Listings}

AManifest == DictOf(<<{<<"description", "m">>}>>)

ManifestResponses == {ConnError, HttpResponse(TRUE, JsonText(AManifest))}

NoCatalog == [built |-> FALSE, names |-> None, op |-> "none", arg |-> "",
              ret |-> NoHandle]

InitCatalog ==
    /\ dirExists = FALSE
    /\ files = <<>>
    /\ now = [day |-> 0, hour |-> 0]
    /\ last = NoCall
    /\ survivors = {}
    /\ manifest = None
    /\ dataFile = 0
    /\ remote = 0
    /\ lastDl = 0
    /\ lastCheck = 0
    /\ catIn = 0
    /\ catOut = 0
    /\ datasets = <<>>
    /\ catalog = NoCatalog

\* Speakleash(replicate_dir): a catalog is constructed.
Construct ==
    \E registry \in RegistryResponses,
       manifests \in [1..MaxListing -> ManifestResponses],
       outcome \in SaveOutcomes :
      \E c \in {speakleash_init(files, now, registry, manifests, outcome)} :
        /\ dirExists' = TRUE
        /\ files' = c.fs
        /\ datasets' = c.datasets
        /\ catalog' = [built |-> TRUE, names |-> c.names, op |-> "init",
                       arg |-> "", ret |-> NoHandle]
        /\ UNCHANGED <<now, last, survivors, downloadVars, categoryVars>>

\* Speakleash.get(name) on the catalog constructed last.
Get ==
    /\ catalog.built
    /\ \E name \in DatasetNames \cup {"c"} :
          catalog' = [catalog EXCEPT !.op = "get", !.arg = name,
                                     !.ret = speakleash_get(datasets, name)]
    /\ UNCHANGED <<dirExists, cacheVars, downloadVars, categoryVars,
                   datasets>>

NextCatalog == Construct \/ Get

SpecCatalog == InitCatalog /\ [][NextCatalog]_vars

-----------------------------------------------------------------------------
(* Claims about the catalog *)

\* The "name" values of the entries of a listing that have one, in order.
RECURSIVE NamesIn(_)
NamesIn(items) ==
    IF items = <<>> THEN <<>>
    ELSE IF \E kv \in Head(items) : kv[1] = "name"
         THEN <<(CHOOSE kv \in Head(items) : kv[1] = "name")[2]>>
                 \o NamesIn(Tail(items))
         ELSE NamesIn(Tail(items))

HandleNames == [i \in 1..Len(datasets) |-> datasets[i].name]

\* C9: the catalog holds one handle per entry of the listing that has a
\* "name", in listing order and with that name; none when the listing is
\* None or empty; get(name) returns the first handle of that name, or None.
C9_OneHandlePerNamedEntry ==
    catalog.built =>
      /\ HandleNames = IF catalog.names.ty = "list"
                       THEN NamesIn(catalog.names.items) ELSE <<>>
      /\ catalog.op = "get" =>
            IF \E i \in 1..Len(datasets) : datasets[i].name = catalog.arg
            THEN \E i \in 1..Len(datasets) :
                    /\ datasets[i].name = catalog.arg
                    /\ \A j \in 1..(i - 1) : datasets[j].name # catalog.arg
                    /\ catalog.ret = datasets[i]
            ELSE catalog.ret = NoHandle

\* C9 witness: the listing [{"name": "a"}, {"no_name": "b"}] gave exactly
\* one handle, named "a", and get("a") returned it.
C9_Witness ==
    /\ catalog.built /\ catalog.op = "get" /\ catalog.arg = "a"
    /\ catalog.names = ListOf(<<{<<"name", "a">>}, {<<"no_name", "b">>}>>)
    /\ HandleNames = <<"a">>
    /\ catalog.ret = datasets[1]

=============================================================================
